---- MODULE Spec2Model ----
(***************************************************************************)
(* A model of riptree, the rare-item association rule miner:               *)
(*   generate_rules.rs   Rule, Rule::make, union, split_out_item,          *)
(*                       generate_rules (parallel map/reduce + FW filter)  *)
(*   main.rs             count_item_frequencies, find_pareto_rare_items,   *)
(*                       mine_rip_tree                                     *)
(*   command_line_args.rs  parse_args_or_exit                              *)
(*   transaction_reader.rs TransactionReader::next                         *)
(*                                                                         *)
(* f64 values are modelled as exact fractions <<numerator, denominator>>   *)
(* in lowest terms: the thresholds the code compares them with are         *)
(* themselves tested by the code, so rounding changes no comparison the    *)
(* properties below rest on.                                               *)
(*                                                                         *)
(* Itemizer, Index, ItemSet, pval and rip_growth live in itemizer.rs,      *)
(* index.rs and fptree.rs, which are not part of the sources at hand; they *)
(* are modelled from the written specification (sections 3, 4.1, 4.2, 4.5  *)
(* and 4.6).                                                               *)
(***************************************************************************)
EXTENDS Integers, Sequences, FiniteSets, Bags, TLC

VARIABLES
    \* ---- generate_rules: arguments
    itemsets,            \* &Vec<ItemSet>: sequence of [items, count]
    dataset_size,        \* u32
    min_confidence,      \* f64, a fraction
    min_lift,            \* f64, a fraction
    rare_items,          \* &HashSet<u32>
    index,               \* &Index: the transactions inserted, as a sequence of item sets
    disable_family_wise_rule_filtering,
    sched,               \* how rayon runs the per-itemset tasks: "in_order" | "any"
    \* ---- generate_rules: locals
    itemset_support,     \* HashMap<Vec<u32>, f64>
    todo,                \* indices of the itemsets par_iter has not mapped yet
    all_rare_rules,      \* the reduction's accumulator, then its result
    family_wise_filtered_rules,
    gpc,                 \* position inside generate_rules
    \* ---- count_item_frequencies (main.rs)
    item_count,          \* HashMap<u32, u32>
    num_transactions,    \* usize
    \* ---- find_pareto_rare_items, run on two iteration orders of one map
    map_order,           \* item_count.iter(): the items in the map's order
    map_order2,          \* the same map iterated in another order
    pareto_rare,         \* the rare set returned for map_order
    pareto_rare2,        \* the rare set returned for map_order2
    ppc,
    \* ---- mine_rip_tree (main.rs)
    input_file,          \* the transactions TransactionReader yields, in file order
    max_support_mode,    \* "pareto" | "gaussian"
    fptree,              \* the weight-1 insertions into the tree so far, in order
    ln_table,            \* ln_table[i + 1] = ln(i!), held as i!
    pos,                 \* the second pass's position in the file
    output_file,         \* <<>> while absent, else <<the rules written to it>>
    exit_code,           \* <<>> while running, else <<the process exit status>>
    mpc,
    \* ---- TransactionReader (transaction_reader.rs)
    reader_file,         \* the lines of the file, each the fields split(",") gives
    rpos,                \* lines consumed by read_line
    itemizer,            \* Itemizer: item string -> id
    yielded,             \* the transactions next() returned
    rpc,
    \* ---- parse_args_or_exit (command_line_args.rs)
    cmdline,             \* the options given on the command line
    args,                \* <<>>, or <<the Arguments returned>>
    args_exit,           \* <<>>, or <<the code passed to process::exit>>
    apc,
    \* ---- find_gaussian_rare_items (main.rs)
    max_item_id,         \* itemizer.max_item_id()
    random_datasets,     \* the bag of the count maps the map closure returned
    pool,                \* the bag of partial results the reduction still holds
    min_count,           \* the reduced HashMap<u32, u32>
    gaussian_rare,       \* the rare set returned
    gapc

rulesVars == <<itemsets, dataset_size, min_confidence, min_lift, rare_items, index,
               disable_family_wise_rule_filtering, sched, itemset_support, todo,
               all_rare_rules, family_wise_filtered_rules, gpc>>

countVars == <<item_count, num_transactions>>

paretoVars == <<map_order, map_order2, pareto_rare, pareto_rare2, ppc>>

mineVars == <<input_file, max_support_mode, fptree, ln_table, pos, output_file,
              exit_code, mpc>>

readerVars == <<reader_file, rpos, itemizer, yielded, rpc>>

argsVars == <<cmdline, args, args_exit, apc>>

gaussVars == <<max_item_id, random_datasets, pool, min_count, gaussian_rare, gapc>>

vars == <<rulesVars, countVars, paretoVars, mineVars, readerVars, argsVars, gaussVars>>

\* The parts of the program a specification does not run stay as they are
\* before the program starts.
CountIdle == item_count = <<>> /\ num_transactions = 0

ParetoIdle ==
    /\ map_order = <<>>
    /\ map_order2 = <<>>
    /\ pareto_rare = {}
    /\ pareto_rare2 = {}
    /\ ppc = "idle"

MineIdle ==
    /\ input_file = <<>>
    /\ max_support_mode = "none"
    /\ fptree = <<>>
    /\ ln_table = <<>>
    /\ pos = 0
    /\ output_file = <<>>
    /\ exit_code = <<>>
    /\ mpc = "idle"

ReaderIdle ==
    /\ reader_file = <<>>
    /\ rpos = 0
    /\ itemizer = <<>>
    /\ yielded = <<>>
    /\ rpc = "idle"

ArgsIdle ==
    /\ cmdline = <<>>
    /\ args = <<>>
    /\ args_exit = <<>>
    /\ apc = "idle"

GaussIdle ==
    /\ max_item_id = 0
    /\ random_datasets = <<>>
    /\ pool = <<>>
    /\ min_count = <<>>
    /\ gaussian_rare = {}
    /\ gapc = "idle"

(***************************************************************************)
(* Bounds of the model.                                                    *)
(***************************************************************************)
MaxItem == 3        \* item ids are 1..MaxItem
MaxRep == 4         \* a dataset repeats each of its transactions 1..MaxRep times
MaxCount == 2       \* counts of hand-built itemsets are 1..MaxCount

Items == 1 .. MaxItem

(***************************************************************************)
(* Fractions.                                                              *)
(***************************************************************************)
RECURSIVE Gcd(_, _)
Gcd(a, b) == IF b = 0 THEN a ELSE Gcd(b, a % b)

Frac(n, d) == LET g == Gcd(n, d) IN <<n \div g, d \div g>>

FLess(x, y) == x[1] * y[2] < y[1] * x[2]

FLeq(x, y) == x[1] * y[2] <= y[1] * x[2]

FDiv(x, y) == Frac(x[1] * y[2], x[2] * y[1])

FMul(x, y) == Frac(x[1] * y[1], x[2] * y[2])

(***************************************************************************)
(* Sorted vectors.                                                         *)
(***************************************************************************)
RECURSIVE SetToSortedSeq(_)
SetToSortedSeq(S) ==
    IF S = {} THEN <<>>
    ELSE LET m == CHOOSE x \in S : \A y \in S : x <= y
         IN <<m>> \o SetToSortedSeq(S \ {m})

Range(s) == {s[i] : i \in DOMAIN s}

\* itertools' sorted(): the ascending sort of a vector (duplicates kept).
RECURSIVE sorted(_)
sorted(v) ==
    IF v = <<>> THEN <<>>
    ELSE LET i == CHOOSE k \in DOMAIN v : \A j \in DOMAIN v : v[k] <= v[j]
         IN <<v[i]>> \o sorted(SubSeq(v, 1, i - 1) \o SubSeq(v, i + 1, Len(v)))

\* union(a, b): the merge of two sorted vectors (generate_rules.rs).
RECURSIVE union(_, _)
union(a, b) ==
    IF a = <<>> THEN b
    ELSE IF b = <<>> THEN a
    ELSE IF Head(a) < Head(b) THEN <<Head(a)>> \o union(Tail(a), b)
    ELSE IF Head(b) < Head(a) THEN <<Head(b)>> \o union(a, Tail(b))
    ELSE <<Head(a)>> \o union(Tail(a), Tail(b))

split_out_item(items, item) ==
    [antecedent |-> SelectSeq(items, LAMBDA x : x # item),
     consequent |-> <<item>>]

(***************************************************************************)
(* Rule::make without its confidence test.                                 *)
(***************************************************************************)
MakeNoConfidenceTest(antecedent, consequent, support_of, minc, minl) ==
    IF antecedent = <<>> \/ consequent = <<>> THEN {}
    ELSE LET ac_vec == union(antecedent, consequent) IN
         IF {ac_vec, antecedent, consequent} \subseteq DOMAIN support_of
         THEN LET ac_sup == support_of[ac_vec]
                  a_sup == support_of[antecedent]
                  c_sup == support_of[consequent]
                  lift == FDiv(ac_sup, FMul(a_sup, c_sup))
              IN IF FLess(lift, minl) THEN {}
                 ELSE {[antecedent |-> sorted(antecedent),
                        consequent |-> sorted(consequent),
                        confidence |-> FDiv(ac_sup, a_sup),
                        lift |-> lift,
                        support |-> ac_sup]}
         ELSE {}

(***************************************************************************)
(* Rule::make.  The result is the set holding the rule (Some) or the empty *)
(* set (None).                                                             *)
(***************************************************************************)
Make(antecedent, consequent, support_of, minc, minl) ==
    IF antecedent = <<>> \/ consequent = <<>> THEN {}
    ELSE LET ac_vec == union(antecedent, consequent) IN
         IF ac_vec \notin DOMAIN support_of THEN {}
         ELSE IF antecedent \notin DOMAIN support_of THEN {}
         ELSE LET ac_sup == support_of[ac_vec]
                  a_sup == support_of[antecedent]
                  confidence == FDiv(ac_sup, a_sup)
              IN IF FLess(confidence, minc) THEN {}
                 ELSE IF consequent \notin DOMAIN support_of THEN {}
                 ELSE LET c_sup == support_of[consequent]
                          lift == FDiv(ac_sup, FMul(a_sup, c_sup))
                      IN IF FLess(lift, minl) THEN {}
                         ELSE {[antecedent |-> sorted(antecedent),
                                consequent |-> sorted(consequent),
                                confidence |-> confidence,
                                lift |-> lift,
                                support |-> ac_sup]}

\* impl PartialEq for Rule: the key of a rule.
RuleEq(r, s) == r.antecedent = s.antecedent /\ r.consequent = s.consequent

(***************************************************************************)
(* The itemset -> support lookup: inserted in list order, so the last      *)
(* entry of an item vector is the one the lookup keeps.                    *)
(***************************************************************************)
RECURSIVE SupportLookupFrom(_, _, _, _)
SupportLookupFrom(m, list, k, n) ==
    IF k > Len(list) THEN m
    ELSE LET key == list[k].items
             val == Frac(list[k].count, n)
         IN SupportLookupFrom(
                [x \in (DOMAIN m) \cup {key} |-> IF x = key THEN val ELSE m[x]],
                list, k + 1, n)

SupportLookup(list, n) == SupportLookupFrom(<<>>, list, 1, n)

(***************************************************************************)
(* Variants of the map closure with a slip in it: one splits every item    *)
(* out, rare or not; one takes the support of the itemset from the         *)
(* itemset's own count instead of the lookup.                              *)
(***************************************************************************)
RulesOfItemsetAnyItem(itemset, support_of, rare, minc, minl) ==
    UNION { LET s == split_out_item(itemset.items, item)
            IN Make(s.antecedent, s.consequent, support_of, minc, minl)
            : item \in Range(itemset.items) }

RulesOfItemsetOwnCount(itemset, support_of, rare, minc, minl) ==
    LET own == [x \in DOMAIN support_of |->
                   IF x = itemset.items THEN Frac(itemset.count, dataset_size)
                   ELSE support_of[x]]
    IN UNION { LET s == split_out_item(itemset.items, item)
               IN Make(s.antecedent, s.consequent, own, minc, minl)
               : item \in {x \in Range(itemset.items) : x \in rare} }

(***************************************************************************)
(* The body of the map closure for one itemset: split every rare item out  *)
(* and keep what Rule::make returns.                                       *)
(***************************************************************************)
RulesOfItemset(itemset, support_of, rare, minc, minl) ==
    UNION { LET s == split_out_item(itemset.items, item)
            IN Make(s.antecedent, s.consequent, support_of, minc, minl)
            : item \in {x \in Range(itemset.items) : x \in rare} }

(***************************************************************************)
(* HashSet<Rule>::insert over a set of rules.  Rule derives Hash over all  *)
(* five fields while eq compares two: an equal rule with equal attributes  *)
(* is found and nothing is inserted; an eq-equal rule with different       *)
(* attributes hashes elsewhere and is found or not depending on the table  *)
(* layout, so both outcomes are possible.                                  *)
(***************************************************************************)
MergeOutcomes(accum, rules) ==
    LET must == {r \in rules : \A e \in accum : ~RuleEq(e, r)}
        may == {r \in rules : r \notin accum /\ \E e \in accum : RuleEq(e, r)}
    IN {accum \cup must \cup opt : opt \in SUBSET may}

(***************************************************************************)
(* Index (index.rs, modelled from section 4.2 of the specification): the   *)
(* transactions inserted, and count(S) = the number of them holding every  *)
(* item of S.                                                              *)
(***************************************************************************)
IndexCount(idx, S) == Cardinality({t \in DOMAIN idx : Range(S) \subseteq idx[t]})

NumTransactions(idx) == Len(idx)

(***************************************************************************)
(* pval (fptree.rs, modelled from section 4.6): the right tail of Fisher's *)
(* exact test, sum over k >= ab of C(a,k) C(n-a,b-k) / C(n,b), as the      *)
(* fraction <<numerator, C(n,b)>>.                                         *)
(***************************************************************************)
RECURSIVE Choose(_, _)
Choose(n, k) ==
    IF k < 0 \/ k > n THEN 0
    ELSE IF k = 0 THEN 1
    ELSE (Choose(n, k - 1) * (n - k + 1)) \div k

RECURSIVE TailSum(_, _, _, _)
TailSum(k, a, b, n) ==
    IF k > a \/ k > b THEN 0
    ELSE Choose(a, k) * Choose(n - a, b - k) + TailSum(k + 1, a, b, n)

pval(ab, a, b, n) == <<TailSum(ab, a, b, n), Choose(n, b)>>

(***************************************************************************)
(* The family-wise filter's closure: keep the rule iff its p-value is      *)
(* below 0.05 / rule_counts[consequent].                                   *)
(***************************************************************************)
RuleCount(rules, c) == Cardinality({r \in rules : r.consequent[1] = c})

RulePval(rule, idx) ==
    LET a == IndexCount(idx, rule.antecedent)
        b == IndexCount(idx, rule.consequent)
        both == union(rule.antecedent, rule.consequent)
        ab == IndexCount(idx, both)
        n == NumTransactions(idx)
    IN pval(ab, a, b, n)

Significance == <<1, 20>>

\* The filter with the significance left undivided.
PassesUncorrected(rule, rules, idx) == FLess(RulePval(rule, idx), Significance)

PassesFamilyWise(rule, rules, idx) ==
    LET threshold == FDiv(Significance, <<RuleCount(rules, rule.consequent[1]), 1>>)
    IN FLess(RulePval(rule, idx), threshold)

(***************************************************************************)
(* generate_rules, step by step.                                           *)
(***************************************************************************)
GRInputs == <<itemsets, dataset_size, min_confidence, min_lift, rare_items, index,
              disable_family_wise_rule_filtering, sched>>

\* The lookup loop, and the start of the parallel iterator: the itemsets of
\* more than one item are the tasks, the reduction starts from HashSet::new.
BuildLookup ==
    /\ gpc = "start"
    /\ itemset_support' = SupportLookup(itemsets, dataset_size)
    /\ todo' = {i \in DOMAIN itemsets : Len(itemsets[i].items) > 1}
    /\ all_rare_rules' = {}
    /\ gpc' = "map"
    /\ UNCHANGED <<GRInputs, family_wise_filtered_rules>>
    /\ UNCHANGED <<countVars, paretoVars, mineVars, readerVars, argsVars, gaussVars>>

Schedulable == IF sched = "any" THEN todo ELSE {i \in todo : \A j \in todo : i <= j}

\* One itemset's map closure and the reduction of its rule set into the
\* accumulator.
MapReduce(i) ==
    /\ gpc = "map"
    /\ i \in Schedulable
    /\ all_rare_rules' \in MergeOutcomes(all_rare_rules,
           RulesOfItemset(itemsets[i], itemset_support, rare_items,
                          min_confidence, min_lift))
    /\ todo' = todo \ {i}
    /\ UNCHANGED <<GRInputs, itemset_support, family_wise_filtered_rules, gpc>>
    /\ UNCHANGED <<countVars, paretoVars, mineVars, readerVars, argsVars, gaussVars>>

\* After the reduction: the family-wise filter, or its short circuit.
FamilyWiseFilter ==
    /\ gpc = "map"
    /\ todo = {}
    /\ family_wise_filtered_rules' =
          IF ~disable_family_wise_rule_filtering
          THEN {r \in all_rare_rules : PassesFamilyWise(r, all_rare_rules, index)}
          ELSE all_rare_rules
    /\ gpc' = "done"
    /\ UNCHANGED <<GRInputs, itemset_support, todo, all_rare_rules>>
    /\ UNCHANGED <<countVars, paretoVars, mineVars, readerVars, argsVars, gaussVars>>

(***************************************************************************)
(* The miner upstream of generate_rules (fptree.rs, modelled from sections *)
(* 4.4 and 4.5): the tree holds the transactions with a rare item, sorted  *)
(* by descending global frequency (ties by ascending id); rip_growth walks *)
(* the conditional pattern bases and emits path + i when i is rare or the  *)
(* path already holds a rare item, counted against the index.              *)
(***************************************************************************)
ItemCountOf(idx) ==
    [i \in UNION {idx[t] : t \in DOMAIN idx} |-> IndexCount(idx, <<i>>)]

Before(counts, x, y) ==
    \/ counts[x] > counts[y]
    \/ counts[x] = counts[y] /\ x < y

RECURSIVE sort_transaction(_, _)
sort_transaction(t, counts) ==
    IF t = {} THEN <<>>
    ELSE LET m == CHOOSE x \in t : \A y \in t \ {x} : Before(counts, x, y)
         IN <<m>> \o sort_transaction(t \ {m}, counts)

contains_rare_item(transaction, rare) == \E item \in transaction : item \in rare

TreePaths(idx, rare, counts) ==
    {sort_transaction(idx[t], counts) :
        t \in {u \in DOMAIN idx : contains_rare_item(idx[u], rare)}}

Position(p, i) == CHOOSE k \in DOMAIN p : p[k] = i

ConditionalBase(base, i) ==
    {SubSeq(p, 1, Position(p, i) - 1) : p \in {q \in base : i \in Range(q)}}

RECURSIVE RipGrowthFrom(_, _, _)
RipGrowthFrom(base, path, rare) ==
    UNION { (IF i \in rare \/ path \cap rare # {} THEN {path \cup {i}} ELSE {})
            \cup RipGrowthFrom(ConditionalBase(base, i), path \cup {i}, rare)
            : i \in UNION {Range(p) : p \in base} }

RECURSIVE SeqOfSets(_)
SeqOfSets(SS) ==
    IF SS = {} THEN <<>>
    ELSE LET s == CHOOSE x \in SS : TRUE IN <<s>> \o SeqOfSets(SS \ {s})

ItemSetNew(S, idx) ==
    [items |-> SetToSortedSeq(S), count |-> IndexCount(idx, SetToSortedSeq(S))]

rip_growth(tree, rare, idx) ==
    LET found == RipGrowthFrom(tree, {}, rare)
        list == SeqOfSets(found)
    IN [k \in DOMAIN list |-> ItemSetNew(list[k], idx)]

(***************************************************************************)
(* Datasets: r1 copies of one transaction followed by r2 copies of         *)
(* another.                                                                *)
(***************************************************************************)
TransactionTypes == (SUBSET Items) \ {{}}

RECURSIVE Repeat(_, _)
Repeat(t, n) == IF n = 0 THEN <<>> ELSE <<t>> \o Repeat(t, n - 1)

TypeList == SeqOfSets(TransactionTypes)

Datasets ==
    {Repeat(TypeList[i], r1) : i \in DOMAIN TypeList, r1 \in 1 .. MaxRep}
    \cup
    UNION { {Repeat(TypeList[i], r1) \o Repeat(TypeList[j], r2) :
                j \in {k \in DOMAIN TypeList : k > i},
                r1 \in 1 .. MaxRep, r2 \in 1 .. MaxRep}
            : i \in DOMAIN TypeList }

\* The (min_confidence, min_lift) pairs of the runs.
Thresholds == {<<<<1, 3>>, <<1, 1>>>>, <<<<1, 1>>, <<2, 1>>>>}

(***************************************************************************)
(* Spec: generate_rules as mine_rip_tree calls it, on the itemsets         *)
(* rip_growth mined from the indexed dataset.                              *)
(***************************************************************************)
GRLocalsInit ==
    /\ itemset_support = <<>>
    /\ todo = {}
    /\ all_rare_rules = {}
    /\ family_wise_filtered_rules = {}
    /\ gpc = "start"

Init ==
    /\ index \in Datasets
    /\ rare_items \in (SUBSET DOMAIN ItemCountOf(index)) \ {{}}
    /\ itemsets = rip_growth(TreePaths(index, rare_items, ItemCountOf(index)),
                             rare_items, index)
    /\ dataset_size = NumTransactions(index)
    /\ \E th \in Thresholds : min_confidence = th[1] /\ min_lift = th[2]
    /\ disable_family_wise_rule_filtering \in BOOLEAN
    /\ sched = "in_order"
    /\ GRLocalsInit
    /\ CountIdle /\ ParetoIdle /\ MineIdle /\ ReaderIdle /\ ArgsIdle /\ GaussIdle

Next ==
    \/ BuildLookup
    \/ \E i \in DOMAIN itemsets : MapReduce(i)
    \/ FamilyWiseFilter

Spec == Init /\ [][Next]_vars

(***************************************************************************)
(* SpecAnyF: generate_rules on hand-built itemset lists.  The item vectors *)
(* are the sub-vectors of TopItemset; every vector may appear several      *)
(* times, with different counts, in any order (the lookup keeps the last), *)
(* and the per-itemset tasks run in any order.                             *)
(***************************************************************************)
TopItemset == <<1, 2>>

SubVectors == <<<<1>>, <<2>>, TopItemset>>

\* The sequences of distinct counts.
CountLists ==
    {cs \in UNION {[1 .. n -> 1 .. MaxCount] : n \in 0 .. MaxCount} :
        \A i, j \in DOMAIN cs : i # j => cs[i] # cs[j]}

EntriesOf(v, cs) == [k \in DOMAIN cs |-> [items |-> v, count |-> cs[k]]]

InitAnyF ==
    /\ \E c1, c2, c3 \in CountLists :
          itemsets = EntriesOf(SubVectors[1], c1) \o EntriesOf(SubVectors[2], c2)
                        \o EntriesOf(SubVectors[3], c3)
    /\ dataset_size = MaxCount
    /\ index = Repeat(Range(TopItemset), MaxCount)
    /\ rare_items \in (SUBSET Range(TopItemset)) \ {{}}
    /\ \E th \in Thresholds : min_confidence = th[1] /\ min_lift = th[2]
    /\ disable_family_wise_rule_filtering \in BOOLEAN
    /\ sched = "any"
    /\ GRLocalsInit
    /\ CountIdle /\ ParetoIdle /\ MineIdle /\ ReaderIdle /\ ArgsIdle /\ GaussIdle

SpecAnyF == InitAnyF /\ [][Next]_vars

(***************************************************************************)
(* Properties of generate_rules.                                           *)
(***************************************************************************)
Returned == gpc = "done"

C2_RuleValuesWithinThresholds ==
    Returned =>
        \A r \in family_wise_filtered_rules :
            /\ FLeq(min_confidence, r.confidence)
            /\ FLeq(r.confidence, <<1, 1>>)
            /\ FLeq(min_lift, r.lift)
            /\ \E k \in DOMAIN itemsets :
                  /\ itemsets[k].items = union(r.antecedent, r.consequent)
                  /\ r.support[1] * dataset_size = itemsets[k].count * r.support[2]

\* C2 witness: a run with positive thresholds that returned a rule of
\* confidence below 1 while another candidate of the list was rejected.
C2_Witness ==
    /\ Returned
    /\ min_confidence = <<1, 3>>
    /\ \E r \in family_wise_filtered_rules : FLess(r.confidence, <<1, 1>>)
    /\ \E k \in DOMAIN itemsets :
          /\ Len(itemsets[k].items) > 1
          /\ \E x \in Range(itemsets[k].items) \cap rare_items :
                \A r \in family_wise_filtered_rules :
                    ~(r.consequent = <<x>> /\
                      union(r.antecedent, r.consequent) = itemsets[k].items)

\* The number of rules of the post-confidence/lift set with consequent c,
\* and a rule's p-value on the index's counts.
FamilySize(c) == Cardinality({s \in all_rare_rules : s.consequent = c})

IndexPval(r) ==
    pval(IndexCount(index, union(r.antecedent, r.consequent)),
         IndexCount(index, r.antecedent),
         IndexCount(index, r.consequent),
         NumTransactions(index))

C3_FamilyWiseExactly ==
    (Returned /\ ~disable_family_wise_rule_filtering) =>
        \A r \in all_rare_rules :
            (r \in family_wise_filtered_rules) <=>
                (20 * FamilySize(r.consequent) * IndexPval(r)[1] < IndexPval(r)[2])

C3_OnlyFiltered == Returned => family_wise_filtered_rules \subseteq all_rare_rules

\* C3: with family-wise filtering enabled, the returned rules are exactly
\* the rules of the post-confidence/lift set whose p-value, taken on the
\* index's counts, is below 0.05 / k_c, k_c being the number of rules of
\* that whole set with the same consequent; nothing else is returned.
C3_FamilyWise == C3_FamilyWiseExactly /\ C3_OnlyFiltered

\* C3 witness: a filtered run that kept a rule of a family of two or more
\* and dropped another rule.
C3_Witness ==
    /\ Returned
    /\ ~disable_family_wise_rule_filtering
    /\ \E r \in family_wise_filtered_rules : FamilySize(r.consequent) >= 2
    /\ family_wise_filtered_rules # all_rare_rules

\* C4: no two rules held or returned by generate_rules have the same
\* (antecedent, consequent).
C4_NoTwoRulesShareKey ==
    /\ \A r, s \in all_rare_rules : RuleEq(r, s) => r = s
    /\ \A r, s \in family_wise_filtered_rules : RuleEq(r, s) => r = s

\* C4 witness: rules were returned from a list in which the vector of a
\* rule's itemset appears twice, with different counts.
C4_Witness ==
    /\ Returned
    /\ \E r \in family_wise_filtered_rules :
          \E j, k \in DOMAIN itemsets :
              /\ j # k
              /\ itemsets[j].items = union(r.antecedent, r.consequent)
              /\ itemsets[k].items = itemsets[j].items
              /\ itemsets[j].count # itemsets[k].count

(***************************************************************************)
(* find_pareto_rare_items (main.rs).  The function pushes the map's         *)
(* (item, count) pairs in the HashMap's iteration order, sorts them by      *)
(* count with the stable sort_by, and walks the sorted vector.  The         *)
(* iteration order of a HashMap is not fixed by its contents, so the order  *)
(* is an input.                                                             *)
(***************************************************************************)
MaxItemCount == 4

Perms(S) ==
    {f \in [1 .. Cardinality(S) -> S] : \A i, j \in DOMAIN f : i # j => f[i] # f[j]}

RECURSIVE CountSum(_, _)
CountSum(counts, order) ==
    IF order = <<>> THEN 0
    ELSE counts[Head(order)] + CountSum(counts, Tail(order))

\* The stable sort by count: the earliest element of the least count first.
RECURSIVE StableSortByCount(_, _)
StableSortByCount(counts, order) ==
    IF order = <<>> THEN <<>>
    ELSE LET k == CHOOSE i \in DOMAIN order :
                     /\ \A j \in DOMAIN order : counts[order[i]] <= counts[order[j]]
                     /\ \A j \in 1 .. i - 1 : counts[order[j]] # counts[order[i]]
             rest == [j \in 1 .. Len(order) - 1 |->
                         IF j < k THEN order[j] ELSE order[j + 1]]
         IN <<order[k]>> \o StableSortByCount(counts, rest)

\* The loop of lines 125-140, from position k of the sorted vector.
RECURSIVE ParetoWalk(_, _, _, _, _, _, _)
ParetoWalk(counts, items, k, sum, prev_count, rare, threshold) ==
    IF k > Len(items) THEN rare
    ELSE LET item == items[k]
             count == counts[item]
             s == sum + count
             rare2 == IF s < threshold \/ prev_count = count
                      THEN rare \cup {item} ELSE rare
         IN IF s > threshold /\ prev_count # count
            THEN rare2
            ELSE ParetoWalk(counts, items, k + 1, s, count, rare2, threshold)

\* (0.25 * item_count_sum as f64) as u32 truncates.
find_pareto_rare_items(counts, order) ==
    LET item_count_sum == CountSum(counts, order)
        items == StableSortByCount(counts, order)
        threshold == item_count_sum \div 4
    IN ParetoWalk(counts, items, 1, 0, 0, {}, threshold)

MaxOf(S) == CHOOSE x \in S : \A y \in S : y <= x

ItemCounts == UNION {[S -> 1 .. MaxItemCount] : S \in (SUBSET Items) \ {{}}}

\* SpecPareto: one item_count map, iterated in two orders.
InitPareto ==
    /\ item_count \in ItemCounts
    /\ num_transactions = MaxOf({item_count[i] : i \in DOMAIN item_count})
    /\ map_order \in Perms(DOMAIN item_count)
    /\ map_order2 \in Perms(DOMAIN item_count)
    /\ pareto_rare = {}
    /\ pareto_rare2 = {}
    /\ ppc = "start"
    /\ itemsets = <<>> /\ dataset_size = 0 /\ index = <<>> /\ rare_items = {}
    /\ min_confidence = <<0, 1>> /\ min_lift = <<0, 1>>
    /\ disable_family_wise_rule_filtering = FALSE
    /\ sched = "in_order"
    /\ GRLocalsInit
    /\ MineIdle /\ ReaderIdle /\ ArgsIdle /\ GaussIdle

FindParetoRareItems ==
    /\ ppc = "start"
    /\ pareto_rare' = find_pareto_rare_items(item_count, map_order)
    /\ pareto_rare2' = find_pareto_rare_items(item_count, map_order2)
    /\ ppc' = "done"
    /\ UNCHANGED <<map_order, map_order2>>
    /\ UNCHANGED <<rulesVars, countVars, mineVars, readerVars, argsVars, gaussVars>>

NextPareto == FindParetoRareItems

SpecPareto == InitPareto /\ [][NextPareto]_vars

\* C5: for one item_count map the Pareto rare set does not depend on the
\* order in which the map is iterated, and an item whose count equals the
\* count of an item of the rare set is in the rare set too.
C5_ParetoOrderIndependent ==
    ppc = "done" =>
        /\ pareto_rare = pareto_rare2
        /\ \A i \in pareto_rare : \A j \in DOMAIN item_count :
              item_count[j] = item_count[i] => j \in pareto_rare

(***************************************************************************)
(* SpecCensus: generate_rules on the fixture of tests::test_index, the 27  *)
(* itemsets of the 11-transaction census2 dataset.  The Itemizer gives     *)
(* a..g the ids 1..7 in order of first appearance.  The test calls         *)
(* generate_rules with four arguments; the function takes a rare set, so   *)
(* every rare set is tried.                                                *)
(***************************************************************************)
CensusNames == <<"a", "b", "c", "d", "e", "f", "g">>

id_of(name) == CHOOSE i \in DOMAIN CensusNames : CensusNames[i] = name

str_of(id) == CensusNames[id]

CensusTransactions ==
    <<{"a", "b", "c"}, {"d", "b", "c"}, {"a", "b", "e"}, {"f", "g", "c"},
      {"d", "g", "e"}, {"f", "b", "c"}, {"f", "b", "c"}, {"a", "b", "e"},
      {"a", "b", "c"}, {"a", "b", "e"}, {"a", "b", "e"}>>

CensusItemsets ==
    <<{"b", "e"}, {"a", "e"}, {"a", "b", "e"}, {"f"}, {"c", "f"}, {"b", "f"},
      {"b", "c", "f"}, {"g"}, {"a"}, {"a", "b"}, {"b"}, {"c"}, {"b", "c"},
      {"c", "g"}, {"d", "g"}, {"d", "e", "g"}, {"e", "g"}, {"f", "g"},
      {"c", "f", "g"}, {"a", "c"}, {"a", "b", "c"}, {"d"}, {"b", "d"},
      {"c", "d"}, {"b", "c", "d"}, {"d", "e"}, {"e"}>>

expected_rules ==
    {"a ==> b", "a ==> b e", "a ==> e", "a b ==> e", "a c ==> b", "a e ==> b",
     "b ==> a", "b ==> a e", "b ==> c", "b ==> c d", "b c ==> d", "b c ==> f",
     "b d ==> c", "b e ==> a", "b f ==> c", "c ==> b", "c ==> b d", "c ==> f",
     "c ==> f g", "c d ==> b", "c f ==> g", "c g ==> f", "d ==> b c", "d ==> e",
     "d ==> e g", "d ==> g", "d e ==> g", "d g ==> e", "e ==> a", "e ==> a b",
     "e ==> d", "e ==> d g", "e ==> g", "e g ==> d", "f ==> c", "f ==> c g",
     "f ==> g", "f g ==> c", "g ==> c f", "g ==> d", "g ==> d e", "g ==> e",
     "g ==> f"}

to_id_set(names) == {id_of(n) : n \in names}

\* No census name parses as an integer, so ensure_sorted takes a.sort();
\* the lexicographic order of the names a..g is the order of their ids.
ensure_sorted(ids) == SetToSortedSeq(Range(ids))

RECURSIVE Join(_, _)
Join(strs, sep) ==
    IF strs = <<>> THEN ""
    ELSE IF Len(strs) = 1 THEN strs[1]
    ELSE strs[1] \o sep \o Join(Tail(strs), sep)

to_string(rule) ==
    LET a == ensure_sorted(rule.antecedent)
        b == ensure_sorted(rule.consequent)
    IN Join([k \in DOMAIN a |-> str_of(a[k])], " ") \o " ==> "
          \o Join([k \in DOMAIN b |-> str_of(b[k])], " ")

InitCensus ==
    /\ index = [t \in DOMAIN CensusTransactions |-> to_id_set(CensusTransactions[t])]
    /\ itemsets = [k \in DOMAIN CensusItemsets |->
                      ItemSetNew(to_id_set(CensusItemsets[k]), index)]
    /\ dataset_size = Len(CensusTransactions)
    /\ min_confidence = <<1, 20>>
    /\ min_lift = <<1, 1>>
    /\ rare_items \in SUBSET DOMAIN CensusNames
    /\ disable_family_wise_rule_filtering = TRUE
    /\ sched = "in_order"
    /\ GRLocalsInit
    /\ CountIdle /\ ParetoIdle /\ MineIdle /\ ReaderIdle /\ ArgsIdle /\ GaussIdle

SpecCensus == InitCensus /\ [][Next]_vars

\* C6: on the census fixture, with min_confidence 0.05, min_lift 1.0 and
\* family-wise filtering disabled, generate_rules returns exactly the 43
\* rules of the fixture (some with several items in the consequent), each
\* rendered string once.
C6_CensusRulesAreTheFixture ==
    Returned =>
        /\ \A str \in expected_rules :
              Cardinality({r \in family_wise_filtered_rules : to_string(r) = str}) = 1
        /\ \A r \in family_wise_filtered_rules : to_string(r) \in expected_rules

(***************************************************************************)
(* parse_args_or_exit (command_line_args.rs).  A command line gives each   *)
(* option at most once: <<>> when the option is absent, <<v>> when it is   *)
(* given with value v.  argparse's parse_args fails with its usage status  *)
(* when a required() option is absent.                                     *)
(***************************************************************************)
ArgparseUsageError == 2

ExitFailure == 1

CommandLines ==
    [input : {<<>>, <<"data.csv">>},
     output : {<<>>, <<"rules.csv">>},
     max_support : {<<>>, <<"gaussian">>, <<"pareto">>, <<"median">>},
     min_confidence : {<<>>, <<<<1, 2>>>>, <<<<1, 1>>>>, <<<<3, 2>>>>},
     min_lift : {<<>>, <<<<1, 2>>>>, <<<<1, 1>>>>, <<<<2, 1>>>>},
     disable_family_wise_rule_filtering : BOOLEAN,
     log_rare_items : BOOLEAN]

\* env::args().count() == 1: nothing follows the program name.
NoArguments(cl) ==
    /\ cl.input = <<>> /\ cl.output = <<>> /\ cl.max_support = <<>>
    /\ cl.min_confidence = <<>> /\ cl.min_lift = <<>>
    /\ ~cl.disable_family_wise_rule_filtering /\ ~cl.log_rare_items

\* Store: the referred field keeps its initial value unless the option is given.
Store(initial, option) == IF option = <<>> THEN initial ELSE option[1]

DefaultMinLift == <<0, 1>>

\* The Arguments after parser.parse_args() returned Ok.
ParsedArguments(cl) ==
    [input_file_path |-> Store("", cl.input),
     output_rules_path |-> Store("", cl.output),
     max_support_mode |-> Store("", cl.max_support),
     min_confidence |-> Store(<<0, 1>>, cl.min_confidence),
     min_lift |-> Store(DefaultMinLift, cl.min_lift),
     disable_family_wise_rule_filtering |-> cl.disable_family_wise_rule_filtering,
     log_rare_items |-> cl.log_rare_items]

\* <<the exit code>> of the first exit the function reaches, <<>> if none.
ExitOf(cl) ==
    LET a == ParsedArguments(cl)
    IN IF NoArguments(cl) THEN <<ExitFailure>>
       ELSE IF \/ cl.input = <<>> \/ cl.output = <<>>
               \/ cl.max_support = <<>> \/ cl.min_confidence = <<>>
            THEN <<ArgparseUsageError>>
       ELSE IF a.max_support_mode \notin {"gaussian", "pareto"} THEN <<ExitFailure>>
       ELSE IF FLess(a.min_confidence, <<0, 1>>) \/ FLess(<<1, 1>>, a.min_confidence)
            THEN <<ExitFailure>>
       ELSE IF FLess(a.min_lift, <<1, 1>>) THEN <<ExitFailure>>
       ELSE <<>>

InitArgs ==
    /\ cmdline \in CommandLines
    /\ args = <<>>
    /\ args_exit = <<>>
    /\ apc = "start"
    /\ itemsets = <<>> /\ dataset_size = 0 /\ index = <<>> /\ rare_items = {}
    /\ min_confidence = <<0, 1>> /\ min_lift = <<0, 1>>
    /\ disable_family_wise_rule_filtering = FALSE
    /\ sched = "in_order"
    /\ GRLocalsInit
    /\ CountIdle /\ ParetoIdle /\ MineIdle /\ ReaderIdle /\ GaussIdle

parse_args_or_exit ==
    /\ apc = "start"
    /\ args_exit' = ExitOf(cmdline)
    /\ args' = IF ExitOf(cmdline) = <<>> THEN <<ParsedArguments(cmdline)>> ELSE <<>>
    /\ apc' = IF ExitOf(cmdline) = <<>> THEN "returned" ELSE "exited"
    /\ UNCHANGED cmdline
    /\ UNCHANGED <<rulesVars, countVars, paretoVars, mineVars, readerVars, gaussVars>>

NextArgs == parse_args_or_exit

SpecArgs == InitArgs /\ [][NextArgs]_vars

\* The command lines of C7: the four required options valid, no --min-lift.
ValidWithoutMinLift(cl) ==
    /\ cl.input # <<>> /\ cl.output # <<>>
    /\ cl.max_support \in {<<"gaussian">>, <<"pareto">>}
    /\ cl.min_confidence # <<>>
    /\ FLeq(<<0, 1>>, cl.min_confidence[1]) /\ FLeq(cl.min_confidence[1], <<1, 1>>)
    /\ cl.min_lift = <<>>

\* C7: on a command line with valid --input, --output, --max-support and
\* --min-confidence and no --min-lift, parse_args_or_exit returns Arguments
\* whose min_lift is 1.0 and does not exit.
C7_MinLiftOptional ==
    (apc # "start" /\ ValidWithoutMinLift(cmdline)) =>
        /\ apc = "returned"
        /\ args_exit = <<>>
        /\ args # <<>>
        /\ args[1].min_lift = <<1, 1>>

(***************************************************************************)
(* TransactionReader::next under the loop of count_item_frequencies.  A    *)
(* line of the file is the sequence of fields line.split(",") gives, so a  *)
(* line always has at least one field; the empty line has the one field    *)
(* "".  The Itemizer (itemizer.rs, modelled from section 4.1) gives a new   *)
(* string the next unused id, starting at 1.                               *)
(***************************************************************************)
MaxFileLines == 3

MaxFields == 2

RawFields == {"a", " b ", "", " "}

\* str::trim on the raw fields.
Trim(s) ==
    CASE s = " b " -> "b"
      [] s = " " -> ""
      [] OTHER -> s

FileLines == UNION {[1 .. n -> RawFields] : n \in 1 .. MaxFields}

Files == UNION {[1 .. n -> FileLines] : n \in 0 .. MaxFileLines}

ItemizerIdOf(itz, s) ==
    IF s \in DOMAIN itz THEN itz[s] ELSE Cardinality(DOMAIN itz) + 1

ItemizerAfter(itz, s) ==
    IF s \in DOMAIN itz THEN itz
    ELSE [t \in DOMAIN itz \cup {s} |->
             IF t = s THEN Cardinality(DOMAIN itz) + 1 ELSE itz[t]]

\* The itemizer after the map closure ran over the fields of a line.
RECURSIVE ItemizerAfterLine(_, _)
ItemizerAfterLine(itz, fields) ==
    IF fields = <<>> THEN itz
    ELSE ItemizerAfterLine(ItemizerAfter(itz, Trim(Head(fields))), Tail(fields))

\* collect::<HashSet<u32>>() of the ids of the line's fields.
Splits(itz, fields) ==
    {ItemizerIdOf(ItemizerAfterLine(itz, fields), Trim(f)) : f \in Range(fields)}

\* The body of the loop of count_item_frequencies for one transaction.
CountTransaction(counts, transaction) ==
    [i \in DOMAIN counts \cup transaction |->
        (IF i \in DOMAIN counts THEN counts[i] ELSE 0)
        + (IF i \in transaction THEN 1 ELSE 0)]

InitReader ==
    /\ reader_file \in Files
    /\ rpos = 0
    /\ itemizer = <<>>
    /\ yielded = <<>>
    /\ rpc = "reading"
    /\ CountIdle
    /\ itemsets = <<>> /\ dataset_size = 0 /\ index = <<>> /\ rare_items = {}
    /\ min_confidence = <<0, 1>> /\ min_lift = <<0, 1>>
    /\ disable_family_wise_rule_filtering = FALSE
    /\ sched = "in_order"
    /\ GRLocalsInit
    /\ ParetoIdle /\ MineIdle /\ ArgsIdle /\ GaussIdle

\* next() reads a line and returns Some(splits); count_item_frequencies
\* counts the transaction.  (splits.len() > 0 holds for every line, since
\* split gives at least one field; were it false the loop would read on.)
ReaderNextSome ==
    /\ rpc = "reading"
    /\ rpos < Len(reader_file)
    /\ LET fields == reader_file[rpos + 1]
           splits == Splits(itemizer, fields)
       IN /\ itemizer' = ItemizerAfterLine(itemizer, fields)
          /\ IF Cardinality(splits) > 0
             THEN /\ yielded' = Append(yielded, splits)
                  /\ num_transactions' = num_transactions + 1
                  /\ item_count' = CountTransaction(item_count, splits)
             ELSE UNCHANGED <<yielded, num_transactions, item_count>>
    /\ rpos' = rpos + 1
    /\ UNCHANGED <<reader_file, rpc>>
    /\ UNCHANGED <<rulesVars, paretoVars, mineVars, argsVars, gaussVars>>

\* read_line returns 0 at the end of the file: next() returns None.
ReaderNextNone ==
    /\ rpc = "reading"
    /\ rpos = Len(reader_file)
    /\ rpc' = "eof"
    /\ UNCHANGED <<reader_file, rpos, itemizer, yielded>>
    /\ UNCHANGED <<rulesVars, countVars, paretoVars, mineVars, argsVars, gaussVars>>

NextReader == ReaderNextSome \/ ReaderNextNone

SpecReader == InitReader /\ [][NextReader]_vars

\* A line that is empty or only whitespace.
Blank(fields) == Len(fields) = 1 /\ Trim(fields[1]) = ""

NonBlankLines == {k \in DOMAIN reader_file : ~Blank(reader_file[k])}

\* C8: at the end of the file the number of transactions yielded (and
\* counted) is the number of non-blank lines, and no item of a yielded
\* transaction is the empty string (the Itemizer never saw "").
C8_BlankLinesSkipped ==
    rpc = "eof" =>
        /\ Len(yielded) = Cardinality(NonBlankLines)
        /\ num_transactions = Cardinality(NonBlankLines)
        /\ "" \notin DOMAIN itemizer

(***************************************************************************)
(* mine_rip_tree (main.rs).  The file is the sequence of transactions the  *)
(* reader yields.  find_gaussian_rare_items draws random datasets: it      *)
(* returns some subset of the counted items, or panics on min_count[item]  *)
(* when no random dataset drew the item.                                   *)
(***************************************************************************)
PanicStatus == 101

\* Scenario 1 of section 8: {a,b,c}, {a,b}, {c}, with a, b, c the ids 1, 2, 3.
Scenario1 == <<{1, 2, 3}, {1, 2}, {3}>>

MineFiles == Datasets \cup {<<>>, Scenario1}

RECURSIVE count_item_frequencies(_, _)
count_item_frequencies(counts, file) ==
    IF file = <<>> THEN counts
    ELSE count_item_frequencies(CountTransaction(counts, Head(file)), Tail(file))

InitMine ==
    /\ input_file \in MineFiles
    /\ max_support_mode \in {"pareto", "gaussian"}
    /\ min_confidence = <<1, 2>>
    /\ min_lift = <<1, 1>>
    /\ disable_family_wise_rule_filtering \in BOOLEAN
    /\ mpc = "first_pass"
    /\ fptree = <<>>
    /\ ln_table = <<>>
    /\ pos = 0
    /\ output_file = <<>>
    /\ exit_code = <<>>
    /\ CountIdle
    /\ itemsets = <<>> /\ dataset_size = 0 /\ index = <<>> /\ rare_items = {}
    /\ sched = "in_order"
    /\ itemset_support = <<>> /\ todo = {} /\ all_rare_rules = {}
    /\ family_wise_filtered_rules = {}
    /\ gpc = "idle"
    /\ ParetoIdle /\ ReaderIdle /\ ArgsIdle /\ GaussIdle

\* Lines 152-160: the first pass.
FirstPass ==
    /\ mpc = "first_pass"
    /\ item_count' = count_item_frequencies(<<>>, input_file)
    /\ num_transactions' = Len(input_file)
    /\ mpc' = "rarity"
    /\ UNCHANGED <<input_file, max_support_mode, fptree, ln_table, pos, output_file,
                   exit_code>>
    /\ UNCHANGED <<rulesVars, paretoVars, readerVars, argsVars, gaussVars>>

MineFrame ==
    /\ UNCHANGED <<itemsets, dataset_size, min_confidence, min_lift, index,
                   disable_family_wise_rule_filtering, sched, itemset_support, todo,
                   all_rare_rules, family_wise_filtered_rules, gpc>>
    /\ UNCHANGED <<countVars, paretoVars, readerVars, argsVars, gaussVars>>

\* Line 172, in whatever order the HashMap iterates.
FindRareItemsPareto ==
    /\ mpc = "rarity"
    /\ max_support_mode = "pareto"
    /\ \E order \in Perms(DOMAIN item_count) :
          rare_items' = find_pareto_rare_items(item_count, order)
    /\ mpc' = "assert"
    /\ UNCHANGED <<input_file, max_support_mode, fptree, ln_table, pos, output_file,
                   exit_code>>
    /\ MineFrame

\* Lines 169-171, the call returns.
FindRareItemsGaussian ==
    /\ mpc = "rarity"
    /\ max_support_mode = "gaussian"
    /\ rare_items' \in SUBSET DOMAIN item_count
    /\ mpc' = "assert"
    /\ UNCHANGED <<input_file, max_support_mode, fptree, ln_table, pos, output_file,
                   exit_code>>
    /\ MineFrame

\* Lines 169-171, the call panics at line 102.
FindRareItemsGaussianPanics ==
    /\ mpc = "rarity"
    /\ max_support_mode = "gaussian"
    /\ DOMAIN item_count # {}
    /\ mpc' = "rarity_panicked"
    /\ exit_code' = <<PanicStatus>>
    /\ UNCHANGED <<input_file, max_support_mode, fptree, ln_table, pos, output_file,
                   rare_items>>
    /\ MineFrame

\* The driver without line 174.
AssertRareItemsAbsent ==
    /\ mpc = "assert"
    /\ mpc' = "second_pass"
    /\ UNCHANGED exit_code
    /\ UNCHANGED <<input_file, max_support_mode, fptree, ln_table, pos, output_file,
                   rare_items>>
    /\ MineFrame

\* Line 174: assert!(rare_items.len() > 0).
AssertRareItems ==
    /\ mpc = "assert"
    /\ IF Cardinality(rare_items) > 0
       THEN mpc' = "second_pass" /\ UNCHANGED exit_code
       ELSE mpc' = "aborted" /\ exit_code' = <<PanicStatus>>
    /\ UNCHANGED <<input_file, max_support_mode, fptree, ln_table, pos, output_file,
                   rare_items>>
    /\ MineFrame

\* The second pass without the test of line 185: every transaction goes
\* into the tree.
SecondPassTreeUnfiltered ==
    /\ mpc = "second_pass"
    /\ Len(index) = pos + 1
    /\ fptree' = Append(fptree, sort_transaction(input_file[pos + 1], item_count))
    /\ pos' = pos + 1
    /\ UNCHANGED <<input_file, max_support_mode, ln_table, output_file, exit_code, mpc>>
    /\ UNCHANGED <<rulesVars, countVars, paretoVars, readerVars, argsVars, gaussVars>>

\* Lines 182-183: the reader yields the next transaction and
\* index.insert takes it.
SecondPassIndex ==
    /\ mpc = "second_pass"
    /\ Len(index) = pos
    /\ pos < Len(input_file)
    /\ index' = Append(index, input_file[pos + 1])
    /\ UNCHANGED mineVars
    /\ UNCHANGED <<itemsets, dataset_size, min_confidence, min_lift, rare_items,
                   disable_family_wise_rule_filtering, sched, itemset_support, todo,
                   all_rare_rules, family_wise_filtered_rules, gpc>>
    /\ UNCHANGED <<countVars, paretoVars, readerVars, argsVars, gaussVars>>

\* Lines 185-190: the transaction just indexed is skipped, or sorted and
\* inserted into the tree with weight 1.
SecondPassTree ==
    /\ mpc = "second_pass"
    /\ Len(index) = pos + 1
    /\ fptree' = IF ~contains_rare_item(input_file[pos + 1], rare_items)
                 THEN fptree
                 ELSE Append(fptree, sort_transaction(input_file[pos + 1], item_count))
    /\ pos' = pos + 1
    /\ UNCHANGED <<input_file, max_support_mode, ln_table, output_file, exit_code, mpc>>
    /\ UNCHANGED <<rulesVars, countVars, paretoVars, readerVars, argsVars, gaussVars>>

RECURSIVE Factorial(_)
Factorial(n) == IF n <= 1 THEN 1 ELSE n * Factorial(n - 1)

\* Lines 198-204: two entries, then one for each i in 2..num_transactions.
LnTable(n) == [k \in 1 .. (IF n < 2 THEN 2 ELSE n + 1) |-> Factorial(k - 1)]

\* Lines 197-237: the ln table, rip_growth, and the call of generate_rules.
RipGrowth ==
    /\ mpc = "second_pass"
    /\ Len(index) = pos
    /\ pos = Len(input_file)
    /\ ln_table' = LnTable(num_transactions)
    /\ itemsets' = rip_growth(Range(fptree), rare_items, index)
    /\ dataset_size' = num_transactions
    /\ gpc' = "start"
    /\ mpc' = "generate_rules"
    /\ UNCHANGED <<input_file, max_support_mode, fptree, pos, output_file, exit_code>>
    /\ UNCHANGED <<min_confidence, min_lift, rare_items, index,
                   disable_family_wise_rule_filtering, sched, itemset_support, todo,
                   all_rare_rules, family_wise_filtered_rules>>
    /\ UNCHANGED <<countVars, paretoVars, readerVars, argsVars, gaussVars>>

\* Lines 247-272: the output file is created, the rules written, Ok(()).
WriteRules ==
    /\ mpc = "generate_rules"
    /\ gpc = "done"
    /\ output_file' = <<family_wise_filtered_rules>>
    /\ exit_code' = <<0>>
    /\ mpc' = "done"
    /\ UNCHANGED <<input_file, max_support_mode, fptree, ln_table, pos>>
    /\ UNCHANGED <<rulesVars, countVars, paretoVars, readerVars, argsVars, gaussVars>>

NextMine ==
    \/ FirstPass
    \/ FindRareItemsPareto
    \/ FindRareItemsGaussian
    \/ FindRareItemsGaussianPanics
    \/ AssertRareItems
    \/ SecondPassIndex
    \/ SecondPassTree
    \/ RipGrowth
    \/ BuildLookup
    \/ \E i \in DOMAIN itemsets : MapReduce(i)
    \/ FamilyWiseFilter
    \/ WriteRules

SpecMine == InitMine /\ [][NextMine]_vars

\* C9: a run never goes past line 174 with an empty rare set: when the
\* rarity method returned the empty set the run has aborted with a
\* non-zero status and has built no index and no tree, mined no itemsets,
\* not called generate_rules and created no output file; and whenever the
\* output file exists the rare set is non-empty.
C9_EmptyRareSetAborts ==
    /\ mpc \in {"second_pass", "generate_rules", "done"} => rare_items # {}
    /\ mpc = "aborted" =>
          /\ rare_items = {}
          /\ exit_code # <<>> /\ exit_code # <<0>>
          /\ index = <<>> /\ fptree = <<>> /\ pos = 0
          /\ itemsets = <<>> /\ gpc = "idle"
          /\ output_file = <<>>
    /\ output_file # <<>> => rare_items # {}

\* C9 witness: the Pareto method returned the empty set on a dataset with
\* transactions, and the run aborted.
C9_Witness ==
    /\ mpc = "aborted"
    /\ max_support_mode = "pareto"
    /\ num_transactions > 0
    /\ rare_items = {}

\* C10: on scenario 1 with the Pareto method, min_confidence 0.5 and
\* min_lift 1.0, the rare set is non-empty and holds a lowest-frequency
\* item, and the finished run has written the rule a ==> b (1 ==> 2) with
\* confidence 1.0.
C10_Scenario1EmitsRule ==
    (input_file = Scenario1 /\ max_support_mode = "pareto"
        /\ min_confidence = <<1, 2>> /\ min_lift = <<1, 1>>) =>
        /\ mpc \notin {"first_pass", "rarity"} =>
              \E i \in rare_items : \A j \in DOMAIN item_count :
                  item_count[i] <= item_count[j]
        /\ mpc \in {"done", "aborted"} =>
              /\ output_file # <<>>
              /\ \E r \in output_file[1] :
                    /\ r.antecedent = <<1>>
                    /\ r.consequent = <<2>>
                    /\ r.confidence = <<1, 1>>

(***************************************************************************)
(* Candidate completeness of generate_rules on the itemsets rip_growth     *)
(* mines (Spec).                                                           *)
(***************************************************************************)
\* The candidate (I \ {r}) ==> {r} passes the thresholds on the dataset's
\* counts.
CandidatePasses(I, r) ==
    LET a == SetToSortedSeq(Range(I) \ {r})
        n_ac == IndexCount(index, I)
        n_a == IndexCount(index, a)
        n_c == IndexCount(index, <<r>>)
    IN /\ n_a > 0 /\ n_c > 0
       /\ FLeq(min_confidence, Frac(n_ac, n_a))
       /\ FLeq(min_lift, Frac(NumTransactions(index) * n_ac, n_a * n_c))

\* C11: once the map/reduce is over, for every mined itemset I of two or
\* more items and every rare item r of I, the rule (I \ {r}) ==> {r} is in
\* the post-confidence/lift set whenever its confidence and lift reach the
\* thresholds; no candidate is lost to a support missing from the lookup.
C11_CandidateCompleteness ==
    (gpc # "start" /\ todo = {}) =>
        \A k \in DOMAIN itemsets :
            Len(itemsets[k].items) >= 2 =>
                \A r \in Range(itemsets[k].items) \cap rare_items :
                    CandidatePasses(itemsets[k].items, r) =>
                        \E rule \in all_rare_rules :
                            /\ rule.antecedent =
                                  SetToSortedSeq(Range(itemsets[k].items) \ {r})
                            /\ rule.consequent = <<r>>

(***************************************************************************)
(* find_gaussian_rare_items (main.rs).  Each of the runs of the parallel   *)
(* map draws num_transactions * avg_transaction_len items with             *)
(* rng.gen_range(0, max_item_id + 1) and counts them; rayon's reduce folds *)
(* the count maps from HashMap::new() and joins partial results in an      *)
(* order and grouping of its own choosing.  The random draws are inputs.   *)
(***************************************************************************)
NumRuns == 3

MaxDraws == 2

\* ln(1 / delta) = ln 20, in millionths.
Ln20Micro == 2995732

EmptyMap == <<>>

\* gen_range(low, high): low inclusive, high exclusive.
gen_range(low, high) == low .. high - 1

Min(a, b) == IF a <= b THEN a ELSE b

RECURSIVE SumCounts(_)
SumCounts(counts) ==
    IF DOMAIN counts = {} THEN 0
    ELSE LET i == CHOOSE x \in DOMAIN counts : TRUE
         IN counts[i] + SumCounts([j \in DOMAIN counts \ {i} |-> counts[j]])

\* (sum of the counts / num_transactions).ceil() as u32, num_transactions > 0.
avg_transaction_len(counts, n) == (SumCounts(counts) + n - 1) \div n

max_item_count(counts) ==
    IF DOMAIN counts = {} THEN 0 ELSE MaxOf({counts[i] : i \in DOMAIN counts})

\* The count map of a sequence of draws (lines 82-87).
RECURSIVE CountDraws(_, _)
CountDraws(counts, draws) ==
    IF draws = <<>> THEN counts
    ELSE CountDraws(CountTransaction(counts, {Head(draws)}), Tail(draws))

\* The maps one run of the map closure can return.
RandomDatasets(n, avg_len, max_id) ==
    {CountDraws(EmptyMap, draws) :
        draws \in [1 .. n * avg_len -> gen_range(0, max_id + 1)]}

\* The reduce closure with or_insert alone, without the min of line 93.
MinCountCombineKeepsFirst(mc, random_dataset) ==
    [item \in DOMAIN mc \cup DOMAIN random_dataset |->
        IF item \in DOMAIN mc THEN mc[item] ELSE random_dataset[item]]

\* The reduce closure (lines 90-96): entry(item).or_insert(count), then min.
MinCountCombine(mc, random_dataset) ==
    [item \in DOMAIN mc \cup DOMAIN random_dataset |->
        IF item \notin DOMAIN mc THEN random_dataset[item]
        ELSE IF item \notin DOMAIN random_dataset THEN mc[item]
        ELSE Min(mc[item], random_dataset[item])]

\* (random_min_count - count) > epsilon, epsilon being
\* sqrt(max_item_count^2 * ln 20 / (2 * num_transactions)).
SignificantlyRare(random_min_count, count, max_count, n) ==
    /\ random_min_count > count
    /\ (random_min_count - count) * (random_min_count - count) * 2 * n * 1000000
          > max_count * max_count * Ln20Micro

\* The (item_count, num_transactions) of datasets small enough to draw:
\* ids 1..K, every count at most N, every transaction with an item.
GaussInputs ==
    {in \in [counts : UNION {[1 .. k -> 1 .. MaxDraws] : k \in 1 .. MaxDraws},
             n : 1 .. MaxDraws] :
        /\ \A i \in DOMAIN in.counts : in.counts[i] <= in.n
        /\ in.n <= SumCounts(in.counts)
        /\ in.n * avg_transaction_len(in.counts, in.n) <= MaxDraws}

InitGauss ==
    /\ \E in \in GaussInputs :
          /\ item_count = in.counts
          /\ num_transactions = in.n
          /\ max_item_id = Len(in.counts)
    /\ random_datasets = EmptyBag
    /\ pool = EmptyBag
    /\ min_count = EmptyMap
    /\ gaussian_rare = {}
    /\ gapc = "map"
    /\ itemsets = <<>> /\ dataset_size = 0 /\ index = <<>> /\ rare_items = {}
    /\ min_confidence = <<0, 1>> /\ min_lift = <<0, 1>>
    /\ disable_family_wise_rule_filtering = FALSE
    /\ sched = "in_order"
    /\ GRLocalsInit
    /\ ParetoIdle /\ MineIdle /\ ReaderIdle /\ ArgsIdle

GaussFrame ==
    UNCHANGED <<rulesVars, countVars, paretoVars, mineVars, readerVars, argsVars,
                max_item_id, gaussian_rare>>

\* One run of the map closure; its result enters the reduction folded
\* onto the identity HashMap::new().
GaussianMap ==
    /\ gapc = "map"
    /\ BagCardinality(random_datasets) < NumRuns
    /\ \E rd \in RandomDatasets(num_transactions,
                                avg_transaction_len(item_count, num_transactions),
                                max_item_id) :
          /\ random_datasets' = random_datasets (+) SetToBag({rd})
          /\ pool' = pool (+) SetToBag({MinCountCombine(EmptyMap, rd)})
    /\ UNCHANGED <<min_count, gapc>>
    /\ GaussFrame

\* The reduction joins two of the partial results it holds.
GaussianReduce ==
    /\ gapc = "map"
    /\ \E a \in BagToSet(pool) :
          \E b \in BagToSet(pool (-) SetToBag({a})) :
              pool' = ((pool (-) SetToBag({a})) (-) SetToBag({b}))
                         (+) SetToBag({MinCountCombine(a, b)})
    /\ UNCHANGED <<random_datasets, min_count, gapc>>
    /\ GaussFrame

\* All runs are in and one result is left: it is min_count.
GaussianReduced ==
    /\ gapc = "map"
    /\ BagCardinality(random_datasets) = NumRuns
    /\ BagCardinality(pool) = 1
    /\ min_count' = CHOOSE mc \in BagToSet(pool) : TRUE
    /\ gapc' = "classify"
    /\ UNCHANGED <<random_datasets, pool>>
    /\ GaussFrame

\* Lines 100-106: min_count[item] panics on an item that is not a key.
GaussianClassify ==
    /\ gapc = "classify"
    /\ IF \E item \in DOMAIN item_count : item \notin DOMAIN min_count
       THEN gapc' = "panicked" /\ UNCHANGED gaussian_rare
       ELSE /\ gaussian_rare' =
                  {item \in DOMAIN item_count :
                      SignificantlyRare(min_count[item], item_count[item],
                                        max_item_count(item_count), num_transactions)}
            /\ gapc' = "done"
    /\ UNCHANGED <<random_datasets, pool, min_count>>
    /\ UNCHANGED <<rulesVars, countVars, paretoVars, mineVars, readerVars, argsVars,
                   max_item_id>>

NextGauss ==
    \/ GaussianMap
    \/ GaussianReduce
    \/ GaussianReduced
    \/ GaussianClassify

SpecGauss == InitGauss /\ [][NextGauss]_vars

\* The runs of the bag that drew the item.
RunsWith(item) == {d \in BagToSet(random_datasets) : item \in DOMAIN d}

LeastOf(S) == CHOOSE x \in S : \A y \in S : x <= y

\* The element-wise minimum of the runs' count maps, over the items some
\* run drew.
MinOverRuns ==
    [item \in UNION {DOMAIN d : d \in BagToSet(random_datasets)} |->
        LeastOf({d[item] : d \in RunsWith(item)})]

\* C12: whatever the order and the grouping in which the reduction combined
\* the per-run count maps, min_count is their element-wise minimum.
C12_ReductionOrderIndependent ==
    gapc \in {"classify", "panicked", "done"} => min_count = MinOverRuns

\* C12 witness: the reduction ended on three different count maps, one
\* of which lacks an item another holds, with an item drawn in different
\* numbers by two runs.
C12_Witness ==
    /\ gapc = "classify"
    /\ Cardinality(BagToSet(random_datasets)) = NumRuns
    /\ \E d, e \in BagToSet(random_datasets) :
          /\ DOMAIN d # DOMAIN e
          /\ \E item \in DOMAIN d \cap DOMAIN e : d[item] # e[item]

\* C13: every synthetic dataset holds ids of 1..max_item_id only (id 0 is
\* never drawn), its num_transactions * avg_len draws all falling on them.
C13_DrawsAreAssignedIds ==
    \A d \in BagToSet(random_datasets) :
        /\ DOMAIN d \subseteq 1 .. max_item_id
        /\ SumCounts(d) =
              num_transactions * avg_transaction_len(item_count, num_transactions)

\* C15: find_gaussian_rare_items does not fail on a missing key: after the
\* reduction every item of item_count is a key of min_count, and its entry
\* is the least count over all runs, a run that never drew it counting 0.
C15_MinCountTotal ==
    /\ gapc # "panicked"
    /\ gapc \in {"classify", "done"} =>
          \A item \in DOMAIN item_count :
              /\ item \in DOMAIN min_count
              /\ min_count[item] =
                    IF RunsWith(item) = BagToSet(random_datasets)
                    THEN LeastOf({d[item] : d \in RunsWith(item)})
                    ELSE 0

(***************************************************************************)
(* The second pass of mine_rip_tree (SpecMine).                            *)
(***************************************************************************)
\* The tree insertions the first n transactions of the file call for.
RECURSIVE TreeInsertions(_)
TreeInsertions(n) ==
    IF n = 0 THEN <<>>
    ELSE IF contains_rare_item(input_file[n], rare_items)
         THEN Append(TreeInsertions(n - 1), sort_transaction(input_file[n], item_count))
         ELSE TreeInsertions(n - 1)

SecondPassOver == mpc \in {"generate_rules", "done"}

\* C14: during the second pass the index holds every transaction read so
\* far and the tree exactly one weight-1 insertion for each transaction
\* with a rare item among those whose index insertion is done, none for
\* the others; after the pass index.num_transactions() is the N of the
\* first pass, which is dataset_size and the bound of ln_table.
C14_SecondPassIndexesAllTreeKeepsRare ==
    mpc \in {"second_pass", "generate_rules", "done"} =>
        /\ Len(index) \in {pos, pos + 1}
        /\ index = SubSeq(input_file, 1, Len(index))
        /\ fptree = TreeInsertions(pos)
        /\ SecondPassOver =>
              /\ NumTransactions(index) = num_transactions
              /\ pos = num_transactions
              /\ dataset_size = num_transactions
              /\ Len(ln_table) = num_transactions + 1

\* C14 witness: the pass is over on a file with a transaction that holds a
\* rare item, inserted twice or more, and a transaction that holds none.
C14_Witness ==
    /\ SecondPassOver
    /\ Len(fptree) >= 2
    /\ Len(fptree) < Len(index)
    /\ \E t \in DOMAIN input_file : ~contains_rare_item(input_file[t], rare_items)

====
